---- MODULE Spec2Model ----
(***************************************************************************)
(* The socket layer of psychic-ninja (socket.c), the growable array       *)
(* (vec.c) behind its registry of handles, and main, as a state machine.  *)
(* One action per API function and per statement of main; a call runs to  *)
(* completion (the program is single threaded) and leaves behind the      *)
(* system calls it made (trace) and a record of the call (last).          *)
(* Spec: the socket layer under main or under any caller; IOSpec: the     *)
(* same with reads and writes; ClientSpec: a caller with one socket;      *)
(* VecSpec: the vector on its own; AllocSpec: reallocarray on its own.    *)
(***************************************************************************)
EXTENDS Integers, Sequences, FiniteSets, TLC

\* ------------------------------------------------------------------ bounds
MaxHandles == 2      \* socket_t structures ever allocated (allocation identities)
MaxCands   == 2      \* longest candidate list getaddrinfo returns
MaxBuf     == 2      \* longest buffer handed to ReadSocket / WriteSocket
MaxCap     == 8      \* largest capacity a vector is grown or reserved to
MaxPush    == 5      \* most elements a vector is filled with by pushes
MaxLen     == 3      \* most elements of a vector that is reserved, compacted,
                     \* inserted into, spliced or swapped
MaxEdge    == 2      \* how far from 0, from MUL_NO_OVERFLOW and from the quotients
                     \* of SIZE_MAX the arguments of reallocarray are taken

\* ------------------------------------------------------- program constants
VEC_MIN_CAPACITY == 4
NULL == 0
EXIT_FAILURE == 1
EXIT_SUCCESS == 0
\* -1UL, the value of (size_t)-1.  size_t is as wide as the build's unsigned
\* long; the model keeps 16 bits of it.
SIZE_MAX == 65535
\* 1UL << (sizeof(size_t) * 4), the square root of SIZE_MAX + 1.
MUL_NO_OVERFLOW == 256

\* errno: the program compares it with ENOMEM and nothing else, so the
\* codes the system calls leave are kept apart only by name.
ENOMEM       == "ENOMEM"
EBADF        == "EBADF"
EMFILE       == "EMFILE"
EISCONN      == "EISCONN"
ECONNREFUSED == "ECONNREFUSED"
ENOTCONN     == "ENOTCONN"
ECONNRESET   == "ECONNRESET"

Handles  == 1..MaxHandles
\* Descriptors 0, 1 and 2 are stdin, stdout and stderr.
FdDomain == 3..(2 + MaxHandles)

VARIABLES
    sock,      \* heap: the socket_t structures, by allocation identity
    fdt,       \* kernel descriptor table
    sockets,   \* the global vector of socket_t*
    errno,     \* the C errno
    trace,     \* system / library calls made by the most recent API call
    last,      \* the most recent API call: operation, argument, result
    crashed,   \* the process was killed by a fault
    main,      \* the activation of main: its position, its local sock, the exit status
    pushed     \* the values pushed into the vector since it was empty, while
               \* nothing but successful pushes was applied to it

vars == <<sock, fdt, sockets, errno, trace, last, crashed, main, pushed>>

\* ------------------------------------------------------------- the world
\* Functions of the program are operators from the mutable state (a record)
\* to the mutable state.
World == [sock |-> sock, fdt |-> fdt, sockets |-> sockets, errno |-> errno,
          trace |-> <<>>, ub |-> FALSE]

Ev(c, f, a, ok) == [call |-> c, fd |-> f, arg |-> a, ok |-> ok]
Emit(w, e)      == [w EXCEPT !.trace = Append(@, e)]

ClosedFd == [open |-> FALSE, owner |-> NULL, peer |-> 0]
OpenCount(t) == Cardinality({f \in FdDomain : t[f].open})

\* ------------------------------------------------------------ the kernel
\* socket(): the lowest free descriptor, or -1.
sys_socket(w, h, ok) ==
    LET free == {f \in FdDomain : ~w.fdt[f].open} IN
    IF ok /\ free # {}
    THEN LET f == CHOOSE x \in free : \A y \in free : x <= y IN
         [w   |-> Emit([w EXCEPT !.fdt[f] = [open |-> TRUE, owner |-> h, peer |-> 0]],
                       Ev("socket", f, 1, TRUE)),
          ret |-> f]
    ELSE [w |-> Emit([w EXCEPT !.errno = EMFILE], Ev("socket", -1, 1, FALSE)), ret |-> -1]

\* close(fd)
sys_close(w, f) ==
    IF f \in FdDomain /\ w.fdt[f].open
    THEN Emit([w EXCEPT !.fdt[f] = ClosedFd], Ev("close", f, 0, TRUE))
    ELSE Emit([w EXCEPT !.errno = EBADF], Ev("close", f, 0, FALSE))

\* connect(fd, candidate k): reach is whether the peer accepts.
sys_connect(w, f, k, reach) ==
    IF ~(f \in FdDomain /\ w.fdt[f].open)
    THEN [w |-> Emit([w EXCEPT !.errno = EBADF], Ev("connect", f, k, FALSE)), ret |-> -1]
    ELSE IF w.fdt[f].peer # 0
    THEN [w |-> Emit([w EXCEPT !.errno = EISCONN], Ev("connect", f, k, FALSE)), ret |-> -1]
    ELSE IF reach
    THEN [w |-> Emit([w EXCEPT !.fdt[f].peer = k], Ev("connect", f, k, TRUE)), ret |-> 0]
    ELSE [w |-> Emit([w EXCEPT !.errno = ECONNREFUSED], Ev("connect", f, k, FALSE)),
          ret |-> -1]

\* The record of a read or a send: the call, the ssize_t it returned and,
\* for a read, whether it returned 0 because the peer had closed.  The
\* sockets are blocking: a read of len > 0 bytes returns 0 only then, and a
\* read of 0 bytes returns 0 whatever the peer did.
EvIO(c, f, len, r) ==
    [call |-> c, fd |-> f, arg |-> len, ok |-> r # -1, ret |-> r,
     eof |-> c = "read" /\ r = 0 /\ len > 0]

\* read(fd, buffer, len) and send(fd, buffer, len, 0): on a connected
\* socket the kernel moves n bytes, 0 <= n <= len (n = -1: the connection
\* fails instead).  ret is the ssize_t the call returns.
sys_transfer(w, call, f, len, n) ==
    IF ~(f \in FdDomain /\ w.fdt[f].open)
    THEN [w |-> Emit([w EXCEPT !.errno = EBADF], EvIO(call, f, len, -1)), ret |-> -1]
    ELSE IF w.fdt[f].peer = 0
    THEN [w |-> Emit([w EXCEPT !.errno = ENOTCONN], EvIO(call, f, len, -1)), ret |-> -1]
    ELSE IF n = -1
    THEN [w |-> Emit([w EXCEPT !.errno = ECONNRESET], EvIO(call, f, len, -1)), ret |-> -1]
    ELSE [w |-> Emit(w, EvIO(call, f, len, n)), ret |-> n]

sys_read(w, f, len, n) == sys_transfer(w, "read", f, len, n)
sys_send(w, f, len, n) == sys_transfer(w, "send", f, len, n)

\* ------------------------------------------------------------- the vector
\* data is the allocated buffer (its Len is the number of slots really
\* allocated, <<>> is the null pointer); a slot never written holds 0.
vec_init == [data |-> <<>>, length |-> 0, capacity |-> 0]

\* reallocarray(optr, nmemb, size) for a product that does not overflow:
\* realloc succeeds (ok) or returns NULL.
reallocarray(optr, nmemb, ok) ==
    IF ok THEN [p |-> [i \in 1..nmemb |-> IF i <= Len(optr) THEN optr[i] ELSE 0],
                null |-> FALSE]
          ELSE [p |-> <<>>, null |-> TRUE]

\* The overflow test with <= for <.
reallocarray_overflows_strict(nmemb, size) ==
    /\ (nmemb >= MUL_NO_OVERFLOW \/ size >= MUL_NO_OVERFLOW)
    /\ nmemb > 0
    /\ SIZE_MAX \div nmemb <= size

\* The overflow test of reallocarray.
reallocarray_overflows(nmemb, size) ==
    /\ (nmemb >= MUL_NO_OVERFLOW \/ size >= MUL_NO_OVERFLOW)
    /\ nmemb > 0
    /\ SIZE_MAX \div nmemb < size

\* size * nmemb in size_t: the product modulo SIZE_MAX + 1, computed from
\* the halves of a so that no intermediate result leaves 32 bits.
MulSizeT(a, b) ==
    (((a % MUL_NO_OVERFLOW) * b)
       + ((((a \div MUL_NO_OVERFLOW) * b) % MUL_NO_OVERFLOW) * MUL_NO_OVERFLOW))
    % (SIZE_MAX + 1)

\* reallocarray(optr, nmemb, size) for any nmemb and size: NULL and ENOMEM
\* when the test finds an overflow, else realloc(optr, size * nmemb), which
\* succeeds (ok) or returns NULL and sets ENOMEM.  calls: the realloc made.
reallocarray_sized(nmemb, size, en, ok) ==
    IF reallocarray_overflows(nmemb, size)
    THEN [null |-> TRUE, errno |-> ENOMEM, calls |-> <<>>]
    ELSE [null |-> ~ok, errno |-> IF ok THEN en ELSE ENOMEM,
          calls |-> <<Ev("realloc", -1, MulSizeT(size, nmemb), ok)>>]

\* vec_expand_ growing an empty vector to one slot.
vec_expand_from_one(v, en, ok) ==
    IF v.length + 1 > v.capacity
    THEN LET cap   == IF v.capacity = 0 THEN 1 ELSE v.capacity * 2
             ndata == reallocarray(v.data, cap, ok) IN
         [v      |-> [v EXCEPT !.capacity = cap,
                               !.data = IF ndata.null THEN v.data ELSE ndata.p],
          errno  |-> IF ndata.null THEN ENOMEM ELSE en,
          failed |-> ndata.null]
    ELSE [v |-> v, errno |-> en, failed |-> FALSE]

\* vec_expand_: returns the vector, errno, and whether the growth failed.
vec_expand_(v, en, ok) ==
    IF v.length + 1 > v.capacity
    THEN LET cap   == IF v.capacity = 0 THEN VEC_MIN_CAPACITY ELSE v.capacity * 2
             ndata == reallocarray(v.data, cap, ok) IN
         [v      |-> [v EXCEPT !.capacity = cap,
                               !.data = IF ndata.null THEN v.data ELSE ndata.p],
          errno  |-> IF ndata.null THEN ENOMEM ELSE en,
          failed |-> ndata.null]
    ELSE [v |-> v, errno |-> en, failed |-> FALSE]

\* vec_reserve_ growing by doubling, as vec_expand_ does.
vec_reserve_doubling(v, en, n, ok) ==
    IF n > v.capacity
    THEN LET cap   == IF 2 * v.capacity > n THEN 2 * v.capacity ELSE n
             ndata == reallocarray(v.data, cap, ok) IN
         [v      |-> [v EXCEPT !.capacity = cap,
                               !.data = IF ndata.null THEN v.data ELSE ndata.p],
          errno  |-> IF ndata.null THEN ENOMEM ELSE en,
          failed |-> ndata.null]
    ELSE [v |-> v, errno |-> en, failed |-> FALSE]

\* vec_reserve_(n): the same with capacity = n.
vec_reserve_(v, en, n, ok) ==
    IF n > v.capacity
    THEN LET ndata == reallocarray(v.data, n, ok) IN
         [v      |-> [v EXCEPT !.capacity = n,
                               !.data = IF ndata.null THEN v.data ELSE ndata.p],
          errno  |-> IF ndata.null THEN ENOMEM ELSE en,
          failed |-> ndata.null]
    ELSE [v |-> v, errno |-> en, failed |-> FALSE]

\* vec_compact_ freeing the buffer of an empty vector without resetting
\* capacity.
vec_compact_keepcap(v, en, ok) ==
    IF v.length = 0
    THEN [v |-> [v EXCEPT !.data = <<>>], errno |-> en, failed |-> FALSE]
    ELSE LET ndata == reallocarray(v.data, v.length, ok) IN
         [v      |-> [v EXCEPT !.capacity = v.length,
                               !.data = IF ndata.null THEN v.data ELSE ndata.p],
          errno  |-> IF ndata.null THEN ENOMEM ELSE en,
          failed |-> ndata.null]

\* vec_compact_: free the buffer of an empty vector, else reallocate it to
\* length slots.
vec_compact_(v, en, ok) ==
    IF v.length = 0
    THEN [v |-> [v EXCEPT !.data = <<>>, !.capacity = 0], errno |-> en, failed |-> FALSE]
    ELSE LET ndata == reallocarray(v.data, v.length, ok) IN
         [v      |-> [v EXCEPT !.capacity = v.length,
                               !.data = IF ndata.null THEN v.data ELSE ndata.p],
          errno  |-> IF ndata.null THEN ENOMEM ELSE en,
          failed |-> ndata.null]

\* vec_insert_(idx): vec_expand_, return if errno is ENOMEM, else memmove
\* the elements from idx on one slot to the right.  shifted: the memmove
\* was reached; oob: it moved bytes outside the allocated buffer.
vec_insert_(v, en, idx, ok) ==
    LET e == vec_expand_(v, en, ok) IN
    IF e.errno = ENOMEM
    THEN [v |-> e.v, errno |-> e.errno, failed |-> e.failed, shifted |-> FALSE, oob |-> FALSE]
    ELSE [v |-> [e.v EXCEPT !.data = [i \in 1..Len(e.v.data) |->
                      IF i >= idx + 2 /\ i <= e.v.length + 1
                      THEN e.v.data[i - 1] ELSE e.v.data[i]]],
          errno |-> e.errno, failed |-> e.failed, shifted |-> TRUE,
          oob |-> e.v.length > idx /\ e.v.length + 1 > Len(e.v.data)]

\* vec_swap_(idx1, idx2): vec_expand_, return if errno is ENOMEM, else
\* exchange the two elements through the slot behind the last one.
\* memcpy between a slot and itself is undefined as well.
vec_swap_(v, en, idx1, idx2, ok) ==
    LET e == vec_expand_(v, en, ok) IN
    IF e.errno = ENOMEM
    THEN [v |-> e.v, errno |-> e.errno, failed |-> e.failed, swapped |-> FALSE, oob |-> FALSE]
    ELSE IF e.v.length + 1 > Len(e.v.data)
    THEN [v |-> e.v, errno |-> e.errno, failed |-> e.failed, swapped |-> TRUE, oob |-> TRUE]
    ELSE [v |-> [e.v EXCEPT !.data = [i \in 1..Len(e.v.data) |->
                      IF i = idx2 + 1 THEN e.v.data[idx1 + 1]
                      ELSE IF i = idx1 + 1 THEN e.v.data[idx2 + 1]
                      ELSE IF i = e.v.length + 1 THEN e.v.data[idx1 + 1]
                      ELSE e.v.data[i]]],
          errno |-> e.errno, failed |-> e.failed, swapped |-> TRUE, oob |-> idx1 = idx2]

\* vec_splice_ moving one element too few.
vec_splice_short(v, start, count) ==
    [v EXCEPT !.data = [i \in 1..Len(v.data) |->
        IF i > start /\ i <= v.length - count - 1 /\ i + count <= Len(v.data)
        THEN v.data[i + count] ELSE v.data[i]]]

\* vec_splice_ without its memmove.
vec_splice_nomove(v, start, count) == v

\* vec_splice_: memmove of the tail over the removed range.
vec_splice_(v, start, count) ==
    [v EXCEPT !.data = [i \in 1..Len(v.data) |->
        IF i > start /\ i <= v.length - count /\ i + count <= Len(v.data)
        THEN v.data[i + count] ELSE v.data[i]]]

\* vec_splice (vec.h): vec_splice_ and then length -= count.
vec_splice(v, start, count) ==
    [vec_splice_(v, start, count) EXCEPT !.length = v.length - count]

\* vec_find (vec.h): the lowest index holding val, or -1.  Indices are C's.
vec_find(v, val) ==
    LET hits == {i \in 0..(v.length - 1) : i + 1 <= Len(v.data) /\ v.data[i + 1] = val} IN
    IF hits = {} THEN -1 ELSE CHOOSE i \in hits : \A j \in hits : i <= j

\* vec_remove (vec.h): find, and splice one element out when found.
vec_remove(v, val) ==
    LET idx == vec_find(v, val) IN
    IF idx # -1 THEN vec_splice(v, idx, 1) ELSE v

\* vec_push (vec.h): grow when full, then store at data[length++]; the push
\* does not proceed when the growth failed.  oob: the store falls outside
\* the allocated buffer.
vec_push(v, en, val, ok) ==
    LET e == vec_expand_(v, en, ok) IN
    IF e.failed THEN [v |-> e.v, errno |-> e.errno, oob |-> FALSE]
    ELSE IF e.v.length + 1 > Len(e.v.data)
    THEN [v |-> [e.v EXCEPT !.length = e.v.length + 1], errno |-> e.errno, oob |-> TRUE]
    ELSE [v |-> [e.v EXCEPT !.data[e.v.length + 1] = val, !.length = e.v.length + 1],
          errno |-> e.errno, oob |-> FALSE]

\* vec_insert (vec.h): vec_insert_ and, when it made room, the store at
\* data[idx] and length++.
vec_insert(v, en, idx, val, ok) ==
    LET r == vec_insert_(v, en, idx, ok) IN
    IF r.shifted /\ idx + 1 <= Len(r.v.data)
    THEN [r EXCEPT !.v.data[idx + 1] = val, !.v.length = r.v.length + 1]
    ELSE IF r.shifted
    THEN [r EXCEPT !.v.length = r.v.length + 1, !.oob = TRUE]
    ELSE r

\* vec_deinit (vec.h): free(data) and vec_init.
vec_deinit(v) == vec_init

\* vec_foreach (vec.h): the loop condition, iter < length, read each round,
\* and the element the round binds, data[iter].
vec_foreach_more(v, iter) == iter < v.length
vec_at(v, iter) == IF iter + 1 <= Len(v.data) THEN v.data[iter + 1] ELSE NULL

\* ------------------------------------------------------- the socket layer
\* A socket_t that CreateSocket has returned: mem is the allocation, state
\* the lifecycle (None before), fd and adr its fields (adr: the number of
\* candidates in the list), list the addrinfo list adr points to.  The
\* fields host, ip and sa are never assigned: what is read from them is
\* whatever malloc left there.
NoSock == [mem |-> "unalloc", state |-> "None", fd |-> -1, adr |-> 0, list |-> "none"]

FreedSock == [NoSock EXCEPT !.mem = "freed", !.state = "Closed", !.list = "freed"]

\* The host field as read: a null pointer, or a pointer to nothing.
HostValues == {"null", "wild"}

\* What a function reads from the fields of *sock: fd and adr as stored and
\* an indeterminate host from a live structure.  From a freed one (use
\* after free) it reads anything: any descriptor number, and in adr a null
\* pointer or a pointer to what reads as a list of one candidate, and a
\* null host.  hosts: the values of host the function may see in a live
\* structure ({"null"} for a function that does not read it).
Views(w, h, hosts) ==
    IF w.sock[h].mem = "live"
    THEN [fd : {w.sock[h].fd}, adr : {w.sock[h].adr}, host : hosts]
    ELSE [fd : FdDomain \cup {-1}, adr : {0, 1}, host : {"null"}]

\* What a read of sock->ip yields: like host, the field is never assigned.
IpValues(w, h) == IF w.sock[h].mem = "live" THEN HostValues ELSE {"null"}

LiveView(w, h, hv) == [fd |-> w.sock[h].fd, adr |-> w.sock[h].adr, host |-> hv]

\* CreateSocket(host, port).  in.n: the number of candidates getaddrinfo
\* resolves (0: it fails; hints is only partly initialised, so it may fail
\* for any host); in.sockFails: socket() fails.  The socket is created from
\* the first candidate's family, type and protocol.  The two mallocs
\* and the vector's reallocation are taken to succeed.  h is the structure
\* malloc returns; on the two failure returns nothing points to it any
\* more, nor to the list, and the heap keeps no record of them beyond the
\* calls in the trace.
\* fault: a certain crash; ub in the world: a possible one.
CreateSocketOp(w, h, in) ==
    LET w0 == Emit(w, Ev("malloc", -1, h, TRUE))
        w1 == Emit(w0, Ev("getaddrinfo", -1, in.n, in.n # 0))
    IN
    IF in.n = 0 THEN [w |-> w1, ret |-> NULL, fault |-> FALSE]
    ELSE
    LET w2 == [w1 EXCEPT !.ub = TRUE]       \* the store through sock->sa
        s  == sys_socket(w2, h, ~in.sockFails)
    IN
    IF s.ret = -1 THEN [w |-> s.w, ret |-> NULL, fault |-> FALSE]
    ELSE
    LET w3 == [s.w EXCEPT !.sock[h] = [mem |-> "live", state |-> "Created",
                                       fd |-> s.ret, adr |-> in.n, list |-> "held"]]
        p  == vec_push(w3.sockets, w3.errno, h, TRUE)
        w4 == [w3 EXCEPT !.sockets = p.v, !.errno = p.errno]
    IN [w |-> w4, ret |-> h, fault |-> p.oob /\ Len(p.v.data) = 0]

\* ConnectLoop leaving the loop at the first failed attempt.
RECURSIVE ConnectLoop_failstops(_, _, _, _, _)
ConnectLoop_failstops(w, f, n, k, reach) ==
    IF k > n THEN [w |-> w, ok |-> 0]
    ELSE LET c == sys_connect(w, f, k, reach[k]) IN
         IF c.ret = -1
         THEN [w |-> Emit(c.w, Ev("fprintf", f, k, FALSE)), ok |-> 0]
         ELSE [w |-> c.w, ok |-> 1]

\* ConnectLoop without the break: the loop goes on after a success.
RECURSIVE ConnectLoop_nobreak(_, _, _, _, _)
ConnectLoop_nobreak(w, f, n, k, reach) ==
    IF k > n
    THEN [w |-> w,
          ok |-> IF \E i \in 1..Len(w.trace) : w.trace[i].call = "connect" /\ w.trace[i].ok
                 THEN 1 ELSE 0]
    ELSE LET c == sys_connect(w, f, k, reach[k]) IN
         ConnectLoop_nobreak(IF c.ret = -1 THEN Emit(c.w, Ev("fprintf", f, k, FALSE)) ELSE c.w,
                             f, n, k + 1, reach)

\* The for loop of ConnectSocket from candidate k on: connect on the
\* handle's descriptor, report a failure and go on, stop at a success.
RECURSIVE ConnectLoop(_, _, _, _, _)
ConnectLoop(w, f, n, k, reach) ==
    IF k > n THEN [w |-> w, ok |-> 0]
    ELSE LET c == sys_connect(w, f, k, reach[k]) IN
         IF c.ret = -1
         THEN ConnectLoop(Emit(c.w, Ev("fprintf", f, k, FALSE)), f, n, k + 1, reach)
         ELSE [w |-> c.w, ok |-> 1]

\* ConnectSocket closing the descriptor when every candidate failed.
ConnectSocketOp_closes(w, h, view, reach) ==
    LET w0 == IF w.sock[h].mem = "live" THEN w ELSE [w EXCEPT !.ub = TRUE]
        l  == ConnectLoop(w0, view.fd, view.adr, 1, reach)
    IN
    IF l.ok = 0
    THEN [w |-> sys_close(Emit(IF view.host = "null" THEN l.w ELSE [l.w EXCEPT !.ub = TRUE],
                               Ev("fprintf", view.fd, 0, FALSE)), view.fd),
          ret |-> 0]
    ELSE [w |-> IF l.w.sock[h].state = "Created"
                THEN [l.w EXCEPT !.sock[h].state = "Connected"] ELSE l.w,
          ret |-> 1]

\* ConnectSocket(sock).  The report that no candidate accepted prints the
\* string sock->host points to: a null pointer is printed as such, any
\* other value of the field points to nothing.
ConnectSocketOp(w, h, view, reach) ==
    LET w0 == IF w.sock[h].mem = "live" THEN w ELSE [w EXCEPT !.ub = TRUE]
        l  == ConnectLoop(w0, view.fd, view.adr, 1, reach)
    IN
    IF l.ok = 0
    THEN [w |-> Emit(IF view.host = "null" THEN l.w ELSE [l.w EXCEPT !.ub = TRUE],
                     Ev("fprintf", view.fd, 0, FALSE)),
          ret |-> 0]
    ELSE [w |-> IF l.w.sock[h].state = "Created"
                THEN [l.w EXCEPT !.sock[h].state = "Connected"] ELSE l.w,
          ret |-> 1]

\* DestroySocket without the close.
DestroySocketOp_noclose(w, h, view) ==
    LET w0 == IF w.sock[h].mem = "live" THEN w ELSE [w EXCEPT !.ub = TRUE]
        w2 == IF view.adr = 0 THEN w0
              ELSE IF w0.sock[h].list = "held"
              THEN Emit([w0 EXCEPT !.sock[h].list = "freed"], Ev("freeaddrinfo", -1, h, TRUE))
              ELSE Emit([w0 EXCEPT !.ub = TRUE], Ev("freeaddrinfo", -1, h, FALSE))
        w4 == IF w2.sock[h].mem = "live"
              THEN Emit([w2 EXCEPT !.sock[h] = FreedSock], Ev("free_sock", -1, h, TRUE))
              ELSE Emit([w2 EXCEPT !.ub = TRUE], Ev("free_sock", -1, h, FALSE))
    IN [w4 EXCEPT !.sockets = vec_remove(w4.sockets, h)]

\* DestroySocket(sock): close, freeaddrinfo, free(host), free(sock), and
\* the removal from the vector.  A free of what is not a held allocation
\* is recorded with ok = FALSE and is undefined behaviour.
DestroySocketOp(w, h, view) ==
    LET w0 == IF w.sock[h].mem = "live" THEN w ELSE [w EXCEPT !.ub = TRUE]
        w1 == sys_close(w0, view.fd)
        w2 == IF view.adr = 0 THEN w1
              ELSE IF w1.sock[h].list = "held"
              THEN Emit([w1 EXCEPT !.sock[h].list = "freed"], Ev("freeaddrinfo", -1, h, TRUE))
              ELSE Emit([w1 EXCEPT !.ub = TRUE], Ev("freeaddrinfo", -1, h, FALSE))
        w3 == IF view.host = "null" THEN w2
              ELSE Emit([w2 EXCEPT !.ub = TRUE], Ev("free_host", -1, h, FALSE))
        w4 == IF w3.sock[h].mem = "live"
              THEN Emit([w3 EXCEPT !.sock[h] = FreedSock], Ev("free_sock", -1, h, TRUE))
              ELSE Emit([w3 EXCEPT !.ub = TRUE], Ev("free_sock", -1, h, FALSE))
    IN [w4 EXCEPT !.sockets = vec_remove(w4.sockets, h)]

\* The loop with its body ahead of its test.
RECURSIVE DestroyLoop_bodyfirst(_, _, _)
DestroyLoop_bodyfirst(w, i, hv) ==
    LET s  == vec_at(w.sockets, i)
        w1 == IF s = NULL THEN w
              ELSE DestroySocketOp(w, s, [fd |-> w.sock[s].fd, adr |-> w.sock[s].adr,
                                          host |-> "null"])
    IN IF vec_foreach_more(w1.sockets, i + 1)
       THEN DestroyLoop_bodyfirst(w1, i + 1, hv) ELSE w1

\* The vec_foreach loop of DestroySockets from index i on.
\* hv: the host field each structure turns out to hold.
RECURSIVE DestroyLoop(_, _, _)
DestroyLoop(w, i, hv) ==
    IF vec_foreach_more(w.sockets, i)
    THEN LET s == vec_at(w.sockets, i) IN
         IF s = NULL THEN [w EXCEPT !.ub = TRUE]            \* assert(sock)
         ELSE DestroyLoop(DestroySocketOp(w, s, LiveView(w, s, hv[s])), i + 1, hv)
    ELSE w

\* DestroySockets()
DestroySocketsOp(w, hv) ==
    LET l == DestroyLoop(w, 0, hv) IN
    [l EXCEPT !.sockets = vec_deinit(l.sockets)]

\* The conversion of a ssize_t to size_t.
ToSizeT(x) == x % (SIZE_MAX + 1)

\* ReadSocket(sock, buffer, bufferlen): read on sock->fd; the result goes
\* through a size_t, and the call that returned -1 is reported.
ReadSocketOp(w, h, view, len, n) ==
    LET w0    == IF w.sock[h].mem = "live" THEN w ELSE [w EXCEPT !.ub = TRUE]
        r     == sys_read(w0, view.fd, len, n)
        bytes == ToSizeT(r.ret)
    IN [w   |-> IF bytes = SIZE_MAX THEN Emit(r.w, Ev("fprintf", view.fd, 0, FALSE)) ELSE r.w,
        ret |-> bytes]

\* WriteSocket sending what a partial send left over.
WriteSocketOp_retries(w, h, view, len, n) ==
    LET w0    == IF w.sock[h].mem = "live" THEN w ELSE [w EXCEPT !.ub = TRUE]
        r     == sys_send(w0, view.fd, len, n)
        r2    == IF r.ret >= 0 /\ r.ret < len
                 THEN sys_send(r.w, view.fd, len - r.ret, len - r.ret) ELSE r
        bytes == ToSizeT(IF r2.ret >= 0 /\ r.ret < len THEN r.ret + r2.ret ELSE r2.ret)
    IN [w   |-> IF bytes = SIZE_MAX THEN Emit(r2.w, Ev("fprintf", view.fd, 0, FALSE)) ELSE r2.w,
        ret |-> bytes]

\* WriteSocket(sock, buffer, bufferlen): the same around send.
WriteSocketOp(w, h, view, len, n) ==
    LET w0    == IF w.sock[h].mem = "live" THEN w ELSE [w EXCEPT !.ub = TRUE]
        r     == sys_send(w0, view.fd, len, n)
        bytes == ToSizeT(r.ret)
    IN [w   |-> IF bytes = SIZE_MAX THEN Emit(r.w, Ev("fprintf", view.fd, 0, FALSE)) ELSE r.w,
        ret |-> bytes]

\* ------------------------------------------------------------ the actions
Registry(v) == {v.data[i] : i \in 1..(IF v.length <= Len(v.data) THEN v.length ELSE Len(v.data))}

\* The handles a caller holds: the ones CreateSocket returned.
Held == {h \in Handles : sock[h].state # "None"}

\* The record of a call.
Call(op, h, ret) == [op |-> op, h |-> h, ret |-> ret]

Commit(w, l) ==
    /\ sock' = w.sock /\ fdt' = w.fdt /\ sockets' = w.sockets /\ errno' = w.errno
    /\ trace' = w.trace /\ last' = l /\ crashed' = FALSE

\* A killed process holds nothing: the kernel closes its descriptors and
\* its memory is gone.
Crash ==
    /\ crashed' = TRUE
    /\ sock' = [h \in Handles |-> NoSock]
    /\ fdt' = [f \in FdDomain |-> ClosedFd]
    /\ sockets' = vec_init
    /\ errno' = "none"
    /\ trace' = <<>>
    /\ last' = [op |-> "killed", h |-> NULL, ret |-> 0]

\* A call that ran into undefined behaviour either kills the process or
\* goes on with the effects it had.
Finish(w, fault, l) ==
    IF fault THEN Crash
    ELSE \/ Commit(w, l)
         \/ w.ub /\ Crash

\* main's activation when the library is driven by another caller, and
\* when the process enters main.
NoMain    == [pc |-> "none", sock |-> NULL, status |-> -1]
MainEntry == [pc |-> "l18", sock |-> NULL, status |-> -1]
\* A process killed by a signal reports no exit status of its own; the
\* shell shows 128 + the signal's number.
MainKilled == [pc |-> "killed", sock |-> NULL, status |-> 139]

\* No record of pushes is kept.
NoRecord == <<-1>>

\* The state of the library after InitializeSockets.
Initialized ==
    /\ sock = [h \in Handles |-> NoSock]
    /\ fdt = [f \in FdDomain |-> ClosedFd]
    /\ sockets = vec_init
    /\ errno = "none"
    /\ trace = <<>>
    /\ last = [op |-> "InitializeSockets", h |-> NULL, ret |-> 1]
    /\ crashed = FALSE

\* The library is driven by the program's entry point, or by a caller that
\* has initialised it and calls its functions in any order.
Init ==
    /\ Initialized
    /\ main \in {NoMain, MainEntry}
    /\ pushed = NoRecord

\* The caller is not main.
AnyCaller == ~crashed /\ main.pc = "none"

\* Which candidates accept a connection: the candidates before up refuse,
\* up accepts (up = 0: none does).  What follows the first one that accepts
\* is never asked.
Reach(n, up) == [k \in 1..n |-> up # 0 /\ k >= up]

CreateInputs == [n : 0..MaxCands, sockFails : BOOLEAN]

CreateSocket ==
    /\ AnyCaller
    /\ UNCHANGED <<main, pushed>>
    /\ \E h \in Handles :
        /\ sock[h].mem = "unalloc"
        /\ \A g \in Handles : g < h => sock[g].mem # "unalloc"
        /\ \E in \in CreateInputs :
             LET r == CreateSocketOp(World, h, in) IN
             Finish(r.w, r.fault, Call("CreateSocket", NULL, r.ret))

ConnectSocket ==
    /\ AnyCaller
    /\ UNCHANGED <<main, pushed>>
    /\ \E h \in Held :
        \E view \in Views(World, h, HostValues) :
        \E up \in 0..view.adr :
             LET r == ConnectSocketOp(World, h, view, Reach(view.adr, up)) IN
             Finish(r.w, FALSE, Call("ConnectSocket", h, r.ret))

DestroySocket ==
    /\ AnyCaller
    /\ UNCHANGED <<main, pushed>>
    /\ \E h \in Held :
        \E view \in Views(World, h, HostValues) :
             Finish(DestroySocketOp(World, h, view), FALSE, Call("DestroySocket", h, 0))

DestroySockets ==
    /\ AnyCaller
    /\ UNCHANGED <<main, pushed>>
    /\ \E hv \in [Registry(sockets) -> HostValues] :
             Finish(DestroySocketsOp(World, hv), FALSE, Call("DestroySockets", NULL, 1))

\* The two lengths and the outcomes of a transfer.
ReadSocket ==
    /\ AnyCaller
    /\ UNCHANGED <<main, pushed>>
    /\ \E h \in Held :
        \E view \in Views(World, h, {"null"}) :
        \E len \in 0..MaxBuf :
        \E n \in -1..len :
             LET r == ReadSocketOp(World, h, view, len, n) IN
             Finish(r.w, FALSE, Call("ReadSocket", h, r.ret))

WriteSocket ==
    /\ AnyCaller
    /\ UNCHANGED <<main, pushed>>
    /\ \E h \in Held :
        \E view \in Views(World, h, {"null"}) :
        \E len \in 0..MaxBuf :
        \E n \in -1..len :
             LET r == WriteSocketOp(World, h, view, len, n) IN
             Finish(r.w, FALSE, Call("WriteSocket", h, r.ret))

\* ------------------------------------------------------------------ main
\* One action per statement of main; pc is the line about to run.  Line 15
\* has run when main is at line 18.  The DestroySockets of line 41 lies
\* behind while (1) and is never reached.

\* The handle CreateSocket is about to allocate.
NextHandle == CHOOSE h \in Handles :
                  /\ sock[h].mem = "unalloc"
                  /\ \A g \in Handles : g < h => sock[g].mem # "unalloc"

\* Line 18: socket_t *sock = CreateSocket("irc.chatspike.net", "6667");
MainCreate ==
    /\ ~crashed /\ main.pc = "l18"
    /\ UNCHANGED pushed
    /\ \E in \in CreateInputs :
         LET r == CreateSocketOp(World, NextHandle, in) IN
         /\ Finish(r.w, r.fault, Call("CreateSocket", NULL, r.ret))
         /\ main' = IF crashed' THEN MainKilled
                    ELSE [main EXCEPT !.pc = "l21", !.sock = r.ret]

\* Line 21: if (!sock)
MainTestCreate ==
    /\ ~crashed /\ main.pc = "l21"
    /\ main' = [main EXCEPT !.pc = IF main.sock = NULL THEN "l23" ELSE "l28"]
    /\ UNCHANGED <<sock, fdt, sockets, errno, trace, last, crashed, pushed>>

\* A fprintf(stderr, ...) of main; stderr is descriptor 2.
MainReport(to) ==
    /\ main' = [main EXCEPT !.pc = to]
    /\ trace' = <<Ev("fprintf", 2, 0, TRUE)>>
    /\ last' = Call("fprintf", NULL, 0)
    /\ UNCHANGED <<sock, fdt, sockets, errno, crashed, pushed>>

\* return status; from main: the process ends, the kernel closes its
\* descriptors and its memory is gone.
MainReturn(status) ==
    /\ main' = [main EXCEPT !.pc = "exited", !.status = status]
    /\ sock' = [h \in Handles |-> NoSock]
    /\ fdt' = [f \in FdDomain |-> ClosedFd]
    /\ sockets' = vec_init
    /\ trace' = <<>>
    /\ last' = Call("return", NULL, status)
    /\ UNCHANGED <<errno, crashed, pushed>>

\* Line 23: fprintf(stderr, "Failed to create to the socket.\n");
MainReportCreate ==
    /\ ~crashed /\ main.pc = "l23"
    /\ MainReport("l24")

\* Line 24: return EXIT_FAILURE;
MainExitCreate ==
    /\ ~crashed /\ main.pc = "l24"
    /\ MainReturn(EXIT_FAILURE)

\* Line 28 with its test the other way round.
MainConnect_inverted ==
    /\ ~crashed /\ main.pc = "l28"
    /\ UNCHANGED pushed
    /\ \E view \in Views(World, main.sock, HostValues) :
       \E up \in 0..view.adr :
         LET r == ConnectSocketOp(World, main.sock, view, Reach(view.adr, up)) IN
         /\ Finish(r.w, FALSE, Call("ConnectSocket", main.sock, r.ret))
         /\ main' = IF crashed' THEN MainKilled
                    ELSE [main EXCEPT !.pc = IF r.ret # 0 THEN "l30" ELSE "l35"]

\* Line 28: if (!ConnectSocket(sock))
MainConnect ==
    /\ ~crashed /\ main.pc = "l28"
    /\ UNCHANGED pushed
    /\ \E view \in Views(World, main.sock, HostValues) :
       \E up \in 0..view.adr :
         LET r == ConnectSocketOp(World, main.sock, view, Reach(view.adr, up)) IN
         /\ Finish(r.w, FALSE, Call("ConnectSocket", main.sock, r.ret))
         /\ main' = IF crashed' THEN MainKilled
                    ELSE [main EXCEPT !.pc = IF r.ret = 0 THEN "l30" ELSE "l35"]

\* Line 30: fprintf(stderr, "Failed to connect to the socket.\n");
MainReportConnect ==
    /\ ~crashed /\ main.pc = "l30"
    /\ MainReport("l31")

\* Line 31: return EXIT_FAILURE;
MainExitConnect ==
    /\ ~crashed /\ main.pc = "l31"
    /\ MainReturn(EXIT_FAILURE)

\* Lines 35 to 38: while (1) { }
MainEventLoop ==
    /\ ~crashed /\ main.pc = "l35"
    /\ UNCHANGED vars

MainNext ==
    \/ MainCreate \/ MainTestCreate \/ MainReportCreate \/ MainExitCreate
    \/ MainConnect \/ MainReportConnect \/ MainExitConnect \/ MainEventLoop

Next ==
    \/ CreateSocket \/ ConnectSocket \/ DestroySocket \/ DestroySockets
    \/ MainNext

Spec == Init /\ [][Next]_vars

\* The same with the two transfer functions.  They change no structure and
\* no descriptor, only errno and the record of the call.
NextIO == Next \/ ReadSocket \/ WriteSocket

IOSpec == Init /\ [][NextIO]_vars

\* A caller with one socket, as main is: it creates a handle (again after
\* a CreateSocket that failed), connects it, reads and writes on it and
\* destroys it, in any order and any number of times.
ClientInit ==
    /\ Initialized
    /\ main = NoMain
    /\ pushed = NoRecord

ClientCreate ==
    /\ \A h \in Handles : sock[h].mem = "unalloc"
    /\ CreateSocket

ClientNext ==
    \/ ClientCreate \/ ConnectSocket \/ DestroySocket \/ ReadSocket \/ WriteSocket

ClientSpec == ClientInit /\ [][ClientNext]_vars

\* ------------------------------------------------- the vector on its own
\* The functions of the vector applied, in any order and with any valid
\* argument, to the program's vector, of which the socket layer uses
\* vec_init, vec_push, vec_remove, vec_foreach and vec_deinit only.  A
\* call is recorded with the reallocation it made (trace) and with the
\* arguments that neither it nor the vector shows afterwards: the index of
\* an insertion, the start and the count of a removal, the value of a
\* vec_remove.  vec_insert_ and vec_swap_ return nothing: the record of
\* their calls holds, as ret, 1 when the call went on to its memmove or
\* memcpy and 0 when it returned before.

VecInit ==
    /\ Initialized
    /\ main = NoMain
    /\ pushed = <<>>

\* The reallocation of a call, if it made one.
Realloc(attempted, nmemb, failed) ==
    IF attempted THEN <<Ev("reallocarray", -1, nmemb, ~failed)>> ELSE <<>>

\* No function of the vector reads a slot at or behind length before it
\* has written it: what such a slot holds is left out of the state.
Elements(v) ==
    [v EXCEPT !.data = [i \in 1..Len(v.data) |-> IF i <= v.length THEN v.data[i] ELSE 0]]

\* The end of a call on the vector.  oob: it wrote outside its buffer, which
\* kills the process when the buffer is the null pointer.  rec: the record
\* of pushes after the call.
VecFinish(v, en, tr, oob, l, rec) ==
    /\ v.capacity <= MaxCap /\ v.length <= MaxPush
    /\ Finish([World EXCEPT !.sockets = Elements(v), !.errno = en, !.trace = tr,
                            !.ub = oob],
              oob /\ Len(v.data) = 0, l)
    /\ pushed' = IF crashed' THEN NoRecord ELSE rec
    /\ UNCHANGED main

\* The vectors the functions other than vec_push are applied to.
Small == AnyCaller /\ sockets.length <= MaxLen

\* After a call that is no successful push the record starts again when
\* the vector is what vec_init leaves.
Restart(v) == IF v = vec_init THEN <<>> ELSE NoRecord

Push ==
    /\ AnyCaller
    /\ \E val \in Handles : \E ok \in BOOLEAN :
         LET att == sockets.length + 1 > sockets.capacity
             r   == vec_push(sockets, errno, val, ok)
         IN VecFinish(r.v, r.errno, Realloc(att, r.v.capacity, att /\ ~ok), r.oob,
                      Call("vec_push", <<>>, 0),
                      IF pushed # NoRecord /\ ~(att /\ ~ok) /\ ~r.oob
                      THEN Append(pushed, val) ELSE NoRecord)

Reserve ==
    /\ Small
    /\ \E n \in 0..MaxCap : \E ok \in BOOLEAN :
         LET r == vec_reserve_(sockets, errno, n, ok) IN
         VecFinish(r.v, r.errno, Realloc(n > sockets.capacity, n, r.failed), FALSE,
                   Call("vec_reserve", <<>>, 0), Restart(r.v))

Compact ==
    /\ Small
    /\ \E ok \in BOOLEAN :
         LET r == vec_compact_(sockets, errno, ok) IN
         VecFinish(r.v, r.errno,
                   IF sockets.length = 0 THEN <<Ev("free", -1, 0, TRUE)>>
                   ELSE Realloc(TRUE, sockets.length, r.failed),
                   FALSE, Call("vec_compact", <<>>, 0), Restart(r.v))

InsertAt ==
    /\ Small /\ sockets.length < MaxLen
    /\ \E idx \in 0..sockets.length : \E val \in Handles : \E ok \in BOOLEAN :
         LET r == vec_insert(sockets, errno, idx, val, ok) IN
         VecFinish(r.v, r.errno,
                   Realloc(sockets.length + 1 > sockets.capacity, r.v.capacity, r.failed),
                   r.oob, Call("vec_insert", <<idx>>, IF r.shifted THEN 1 ELSE 0),
                   Restart(r.v))

RemoveRange ==
    /\ Small
    /\ \E start \in 0..(sockets.length - 1) : \E count \in 1..(sockets.length - start) :
         LET v == vec_splice(sockets, start, count) IN
         VecFinish(v, errno, <<>>, sockets.length > Len(sockets.data),
                   Call("vec_splice", <<start, count>>, 0), Restart(v))

\* vec_remove(val): val is a value the vector holds once, more than once
\* or not at all.
Remove ==
    /\ Small
    /\ \E val \in Handles :
         LET v == vec_remove(sockets, val) IN
         VecFinish(v, errno, <<>>, sockets.length > Len(sockets.data),
                   Call("vec_remove", <<val>>, 0), Restart(v))

Swap ==
    /\ Small
    /\ \E idx1, idx2 \in 0..(sockets.length - 1) : \E ok \in BOOLEAN :
         LET r == vec_swap_(sockets, errno, idx1, idx2, ok) IN
         VecFinish(r.v, r.errno,
                   Realloc(sockets.length + 1 > sockets.capacity, r.v.capacity, r.failed),
                   r.oob, Call("vec_swap", <<>>, IF r.swapped THEN 1 ELSE 0),
                   Restart(r.v))

VecNext == Push \/ Reserve \/ Compact \/ InsertAt \/ RemoveRange \/ Remove \/ Swap

VecSpec == VecInit /\ [][VecNext]_vars

\* ---------------------------------------------- reallocarray on its own
\* reallocarray called with sizes at the edges of its overflow test: small
\* ones, the ones around MUL_NO_OVERFLOW, and the ones around SIZE_MAX / k,
\* where a product first passes SIZE_MAX.
SizeValues ==
    {x \in UNION {{d, MUL_NO_OVERFLOW - d, MUL_NO_OVERFLOW + d,
                   SIZE_MAX \div (d + 1), (SIZE_MAX \div (d + 1)) + 1} : d \in 0..MaxEdge} :
        x <= SIZE_MAX}

AllocInit ==
    /\ Initialized
    /\ main = NoMain
    /\ pushed = NoRecord

Reallocarray ==
    /\ AnyCaller
    /\ \E nmemb \in SizeValues : \E size \in SizeValues : \E ok \in BOOLEAN :
         LET r == reallocarray_sized(nmemb, size, errno, ok) IN
         /\ errno' = r.errno
         /\ trace' = r.calls
         /\ last' = Call("reallocarray", <<nmemb, size>>, IF r.null THEN NULL ELSE 1)
    /\ UNCHANGED <<sock, fdt, sockets, crashed, main, pushed>>

AllocSpec == AllocInit /\ [][Reallocarray]_vars

\* ----------------------------------------------------------- the claims
Attempts(t) == SelectSeq(t, LAMBDA e : e.call = "connect")
Count(t, c, ok) == Cardinality({i \in 1..Len(t) : t[i].call = c /\ t[i].ok = ok})
AllFailed(t, n) ==
    /\ Len(Attempts(t)) = n
    /\ \A i \in 1..Len(Attempts(t)) : ~Attempts(t)[i].ok

\* A descriptor opened for handle h is open.
OwnsOpen(h) == \E f \in FdDomain : fdt[f].open /\ fdt[f].owner = h

\* The most recent call was op on a structure that is allocated (so it was
\* when the call began, unless the call is DestroySocket).
LiveCall(op) == last.op = op /\ last.h # NULL /\ sock[last.h].mem = "live"

\* C1: within one ConnectSocket call on a handle with N candidates, the
\* attempts are made on candidates 1, 2, ... in list order on the handle's
\* descriptor, at most N of them, none after the first success, and the
\* call returns 1 exactly when an attempt succeeded.
C1_FailoverOrder ==
    LiveCall("ConnectSocket") =>
        LET a == Attempts(trace)
            n == sock[last.h].adr
        IN /\ Len(a) <= n
           /\ \A i \in 1..Len(a) : a[i].arg = i /\ a[i].fd = sock[last.h].fd
           /\ \A i \in 1..(Len(a) - 1) : ~a[i].ok
           /\ (last.ret = 1) <=> (\E i \in 1..Len(a) : a[i].ok)
           /\ (last.ret = 0) => Len(a) = n
           /\ last.ret \in {0, 1}

\* C1 witness: the first candidate refused, the second accepted.
C1_Witness ==
    /\ LiveCall("ConnectSocket") /\ last.ret = 1
    /\ Len(Attempts(trace)) = 2
    /\ ~Attempts(trace)[1].ok /\ Attempts(trace)[2].ok

\* C2: every attempt of a ConnectSocket call is made on a descriptor the
\* call has just opened for that candidate, and a failed attempt's
\* descriptor is closed before the next attempt.
C2_FreshSocketPerAttempt ==
    LiveCall("ConnectSocket") =>
        \A i \in 1..Len(trace) : trace[i].call = "connect" =>
            /\ i > 1
            /\ trace[i - 1].call = "socket"
            /\ trace[i - 1].fd = trace[i].fd
            /\ trace[i - 1].arg = trace[i].arg
            /\ ~trace[i].ok =>
                  \E j \in (i + 1)..Len(trace) :
                      /\ trace[j].call = "close" /\ trace[j].fd = trace[i].fd
                      /\ \A m \in (i + 1)..j : trace[m].call # "connect"

\* C3: a ConnectSocket call in which all N candidates fail returns 0 and
\* leaves the number of open descriptors what it was before the call.
C3_AllFailedKeepsDescriptorCount ==
    [][(/\ last'.op = "ConnectSocket"
        /\ sock[last'.h].mem = "live"
        /\ AllFailed(trace', sock[last'.h].adr))
       => (last'.ret = 0 /\ OpenCount(fdt') = OpenCount(fdt))]_vars

\* C3 witness: two candidates, both refused, on an open descriptor.
C3_Witness ==
    /\ LiveCall("ConnectSocket") /\ last.ret = 0
    /\ sock[last.h].adr = 2 /\ AllFailed(trace, 2)
    /\ OwnsOpen(last.h)
    /\ \A i \in 1..Len(trace) : trace[i].call = "connect" => errno = ECONNREFUSED

\* C4: once ConnectSocket has returned failure, no descriptor of that
\* connection attempt is open.
C4_NoDescriptorAfterFailure ==
    (LiveCall("ConnectSocket") /\ last.ret = 0) => ~OwnsOpen(last.h)

\* C5: DestroySocket on a live handle closes its descriptor and releases
\* the candidate list and the structure exactly once; on a handle already
\* destroyed it closes nothing and frees nothing.
C5_DestroyExactlyOnce ==
    last.op = "DestroySocket" =>
        IF Count(trace, "free_sock", TRUE) = 1
        THEN /\ Count(trace, "close", TRUE) + Count(trace, "close", FALSE) = 1
             /\ Count(trace, "freeaddrinfo", TRUE) = 1
        ELSE \A i \in 1..Len(trace) :
                 trace[i].call \notin {"close", "freeaddrinfo", "free_host", "free_sock"}

\* C6: DestroySockets destroys every registered handle exactly once and
\* leaves the registry empty.
C6_DestroyAllReachesAll ==
    [][last'.op = "DestroySockets" =>
         /\ \A h \in Registry(sockets) :
               /\ sock'[h].state = "Closed"
               /\ Cardinality({i \in 1..Len(trace') :
                       trace'[i].call = "free_sock" /\ trace'[i].arg = h}) = 1
         /\ sockets'.length = 0]_vars

\* C7: DestroySockets on an empty registry closes nothing, releases nothing
\* and leaves the registry empty; a second call in a row changes nothing.
C7_DestroyAllIdempotent ==
    [][/\ (last'.op = "DestroySockets" /\ sockets.length = 0) =>
            /\ trace' = <<>>
            /\ sock' = sock /\ fdt' = fdt
            /\ sockets'.length = 0
       /\ (last'.op = "DestroySockets" /\ last.op = "DestroySockets") =>
            /\ sock' = sock /\ fdt' = fdt /\ sockets' = sockets /\ errno' = errno]_vars

\* C7 witness: DestroySockets has run on a registry already emptied (it
\* made no call), after handles had been created and torn down, and with a
\* handle that is still alive.
C7_Witness ==
    /\ last.op = "DestroySockets" /\ trace = <<>>
    /\ sockets = vec_init
    /\ \E h \in Handles : sock[h].state = "Closed"
    /\ \E h \in Handles : sock[h].state = "Created"

\* C8: the registry has no duplicate entry and holds exactly the handles
\* that are Created or Connected.
C8_RegistryExact ==
    /\ \A i, j \in 1..sockets.length :
           (i <= Len(sockets.data) /\ j <= Len(sockets.data) /\ i # j)
               => sockets.data[i] # sockets.data[j]
    /\ Registry(sockets) = {h \in Handles : sock[h].state \in {"Created", "Connected"}}

Forward ==
    {<<"None", "None">>, <<"None", "Created">>, <<"Created", "Created">>,
     <<"Created", "Connected">>, <<"Connected", "Connected">>,
     <<"Created", "Closed">>, <<"Connected", "Closed">>, <<"Closed", "Closed">>}

\* C10: the lifecycle only moves forward, a failed ConnectSocket leaves a
\* Created handle Created, and a call on a Closed handle touches no
\* descriptor.
C10_ForwardOnlyAndClosedIsFinal ==
    [][~crashed' =>
        \A h \in Handles :
          /\ <<sock[h].state, sock'[h].state>> \in Forward
          /\ (last'.op = "ConnectSocket" /\ last'.h = h /\ last'.ret = 0
                 /\ sock[h].state = "Created") => sock'[h].state = "Created"
          /\ (sock[h].state = "Closed" /\ last'.h = h) =>
                 \A i \in 1..Len(trace') : trace'[i].call \notin {"close", "connect"}]_vars

\* C11: ReadSocket and WriteSocket on a handle that is not Connected report
\* an error and make no read and no send on a descriptor.
C11_NoTransferOutsideConnected ==
    (last.op \in {"ReadSocket", "WriteSocket"} /\ sock[last.h].state # "Connected") =>
        /\ last.ret = SIZE_MAX
        /\ \A i \in 1..Len(trace) : trace[i].call \notin {"read", "send"}

\* A call of the most recent API call's trace.
Called(t, c, ok) == \E i \in 1..Len(t) : t[i].call = c /\ t[i].ok = ok

\* C12: in main, a CreateSocket whose resolution fails returns NULL; after
\* a failed CreateSocket main calls no ConnectSocket, reports and returns a
\* non-zero status; after a failed ConnectSocket it reports and returns a
\* non-zero status; it enters the event loop only with a handle that
\* CreateSocket returned and ConnectSocket connected.
C12_MainExitPaths ==
    [][(main.pc # "none" /\ ~crashed') =>
        /\ (main.pc = "l18" /\ Called(trace', "getaddrinfo", FALSE)) =>
               (last'.ret = NULL /\ main'.sock = NULL)
        /\ (main.pc = "l21" /\ main.sock = NULL) => main'.pc = "l23"
        /\ (main.pc = "l21" /\ main.sock # NULL) => main'.pc = "l28"
        /\ main.pc = "l23" => main'.pc = "l24"
        /\ main.pc = "l24" => main'.pc = "exited"
        /\ main.pc = "l28" =>
               /\ main.sock # NULL /\ sock[main.sock].state = "Created"
               /\ main'.pc = IF last'.ret = 0 THEN "l30" ELSE "l35"
        /\ main.pc = "l30" => main'.pc = "l31"
        /\ main.pc = "l31" => main'.pc = "exited"
        /\ last'.op = "ConnectSocket" => (main.pc = "l28" /\ main.sock # NULL)
        /\ main'.pc = "exited" => main'.status # EXIT_SUCCESS
        /\ main'.pc = "l35" =>
               /\ main'.sock # NULL /\ sock'[main'.sock].state = "Connected"
               /\ last'.op = "ConnectSocket" /\ last'.ret = 1
               /\ \E f \in FdDomain : fdt'[f].open /\ fdt'[f].owner = main'.sock
                                         /\ fdt'[f].peer # 0]_vars

\* C12 witness: main on its way out, at the report of line 23, after a
\* CreateSocket whose resolution failed, having made no connect.
C12_Witness ==
    /\ main.pc = "l23" /\ main.sock = NULL
    /\ last.op = "CreateSocket" /\ last.ret = NULL
    /\ Called(trace, "getaddrinfo", FALSE)
    /\ ~Called(trace, "connect", TRUE) /\ ~Called(trace, "connect", FALSE)

\* The elements of a vector that lie in its buffer.
Elems(v) == SubSeq(v.data, 1, IF v.length <= Len(v.data) THEN v.length ELSE Len(v.data))

\* v2 has the length of v and, where v had an element in its buffer, the
\* same element.
ElemsKept(v, v2) ==
    /\ v2.length = v.length
    /\ \A i \in 1..v.length :
          i <= Len(v.data) => (i <= Len(v2.data) /\ v2.data[i] = v.data[i])

\* C13: whatever calls were made on the vector, with valid arguments and
\* reallocations that may fail, 0 <= length <= capacity, and data is not
\* the null pointer when capacity > 0.
C13_LengthCapacityData ==
    (last.op \in {"vec_push", "vec_reserve", "vec_compact", "vec_insert",
                  "vec_splice", "vec_swap"}) =>
        /\ 0 <= sockets.length /\ sockets.length <= sockets.capacity
        /\ sockets.capacity > 0 => sockets.data # <<>>

\* C14: a vec_push or a vec_reserve whose reallocation fails leaves data,
\* length and capacity as they were, with capacity no more than the slots
\* allocated, and sets errno to ENOMEM.
C14_FailedGrowthChangesNothing ==
    [][(last'.op \in {"vec_push", "vec_reserve"} /\ Called(trace', "reallocarray", FALSE)) =>
        /\ sockets' = sockets
        /\ sockets'.capacity <= Len(sockets'.data)
        /\ errno' = ENOMEM]_vars

\* C15: the growth step of a push (its reallocation succeeding) leaves
\* capacity as it is when length + 1 <= capacity, and makes it
\* max(VEC_MIN_CAPACITY, 2 * capacity) otherwise, whatever the capacity was.
C15_GrowthIsMaxOfMinAndDouble ==
    [][(last'.op = "vec_push" /\ ~Called(trace', "reallocarray", FALSE)) =>
        sockets'.capacity =
            IF sockets.length + 1 <= sockets.capacity THEN sockets.capacity
            ELSE IF 2 * sockets.capacity > VEC_MIN_CAPACITY THEN 2 * sockets.capacity
            ELSE VEC_MIN_CAPACITY]_vars

\* The capacities 4 * 2^j.
RECURSIVE Doubled(_)
Doubled(c) == IF c > MaxCap + 1 THEN {} ELSE {c} \cup Doubled(2 * c)

\* C16: after k >= 1 pushes into an empty vector, none of which failed to
\* allocate, length is k, the pushed values are at indices 0 .. k-1 in the
\* order of the pushes, and capacity is 4 * 2^j for some j and at least k.
C16_PushesFromEmpty ==
    (pushed # NoRecord /\ Len(pushed) >= 1) =>
        /\ sockets.length = Len(pushed)
        /\ Elems(sockets) = pushed
        /\ sockets.capacity \in Doubled(VEC_MIN_CAPACITY)
        /\ sockets.capacity >= Len(pushed)
        /\ Len(sockets.data) = sockets.capacity

\* C16 witness: five pushes of two different values have grown the vector
\* twice.
C16_Witness ==
    /\ pushed # NoRecord /\ Len(pushed) = 5
    /\ \E i, j \in 1..5 : pushed[i] # pushed[j]
    /\ sockets.capacity = 2 * VEC_MIN_CAPACITY
    /\ last.op = "vec_push" /\ Called(trace, "reallocarray", TRUE)

\* C17: vec_reserve(n) with n > capacity makes capacity n, and the buffer n
\* slots when the reallocation succeeds; with n <= capacity it changes
\* nothing; length and the elements stay as they were.
C17_ReserveOneStep ==
    [][last'.op = "vec_reserve" =>
        /\ ElemsKept(sockets, sockets')
        /\ IF trace' = <<>>
           THEN sockets' = sockets /\ errno' = errno
           ELSE LET n == trace'[1].arg IN
                /\ Len(trace') = 1 /\ n > sockets.capacity
                /\ sockets'.capacity = n
                /\ trace'[1].ok => Len(sockets'.data) = n]_vars

\* C17 witness: a vector of two elements reserved to five slots.
C17_Witness ==
    /\ last.op = "vec_reserve" /\ Called(trace, "reallocarray", TRUE)
    /\ sockets.length = 2 /\ sockets.capacity = 5 /\ Len(sockets.data) = 5
    /\ sockets.data[1] # sockets.data[2]

\* C18: vec_compact makes capacity equal to length and keeps length and
\* the elements; on an empty vector it releases the buffer: data is the
\* null pointer and capacity 0.
C18_CompactToLength ==
    [][last'.op = "vec_compact" =>
        /\ ElemsKept(sockets, sockets')
        /\ sockets'.capacity = sockets.length
        /\ Called(trace', "reallocarray", TRUE) => Len(sockets'.data) = sockets.length
        /\ sockets.length = 0 =>
              (sockets'.data = <<>> /\ sockets'.capacity = 0 /\ Called(trace', "free", TRUE))]_vars

\* C18 witness: a vector of three elements compacted to three slots.
C18_Witness ==
    /\ last.op = "vec_compact" /\ Called(trace, "reallocarray", TRUE)
    /\ sockets.length = 3 /\ sockets.capacity = 3 /\ Len(sockets.data) = 3
    /\ sockets.data[1] # sockets.data[3]

\* C19: vec_splice(start, count), count >= 1 and start + count <= length,
\* on a vector whose elements lie in its buffer, leaves the elements before
\* start followed by those from start + count on, in their order, and the
\* capacity it had; up to count pushes after it grow nothing.
C19_RemoveRangeKeepsOrderAndCapacity ==
    [][(last'.op = "vec_splice" /\ sockets.length <= Len(sockets.data)) =>
        LET start == last'.h[1]
            count == last'.h[2]
            old   == Elems(sockets)
        IN /\ count >= 1 /\ start + count <= sockets.length
           /\ sockets'.length = sockets.length - count
           /\ Elems(sockets') = SubSeq(old, 1, start) \o SubSeq(old, start + count + 1, Len(old))
           /\ sockets'.capacity = sockets.capacity
           /\ \A j \in 0..(count - 1) :
                 vec_expand_([sockets' EXCEPT !.length = @ + j], errno', FALSE).v.capacity
                     = sockets.capacity]_vars

\* C19 witness: the first of three elements was removed, and the two left
\* differ.
C19_Witness ==
    /\ last.op = "vec_splice" /\ last.h = <<0, 1>>
    /\ sockets.length = 2 /\ sockets.capacity = VEC_MIN_CAPACITY
    /\ Len(sockets.data) = VEC_MIN_CAPACITY
    /\ sockets.data[1] # sockets.data[2]

\* C20: vec_insert at idx, 0 <= idx <= length, on a vector whose elements
\* lie in its buffer and with no reallocation failing, grows the vector
\* when length = capacity and moves the elements from idx on one slot to
\* the right: the old element i is at i for i < idx and at i + 1 for
\* i >= idx.
C20_InsertShiftsTail ==
    [][(/\ last'.op = "vec_insert"
        /\ sockets.length <= Len(sockets.data)
        /\ sockets.capacity <= Len(sockets.data)
        /\ ~Called(trace', "reallocarray", FALSE)) =>
        LET idx == last'.h[1] IN
        /\ idx >= 0 /\ idx <= sockets.length
        /\ sockets.length = sockets.capacity => Called(trace', "reallocarray", TRUE)
        /\ \A i \in 1..sockets.length :
              LET to == IF i <= idx THEN i ELSE i + 1 IN
              to <= Len(sockets'.data) /\ sockets'.data[to] = sockets.data[i]]_vars
\* v with the elements at the C indices idx1 and idx2 exchanged.
Exchanged(v, idx1, idx2) ==
    [i \in 1..v.length |-> IF i = idx1 + 1 THEN v.data[idx2 + 1]
                           ELSE IF i = idx2 + 1 THEN v.data[idx1 + 1]
                           ELSE v.data[i]]

\* C21: vec_swap with both indices below length, on a vector whose elements
\* lie in its buffer, exchanges two elements and leaves the others, length
\* and capacity as they were, and it makes no reallocation in any state,
\* length = capacity included.
C21_SwapWithoutGrowth ==
    [][(last'.op = "vec_swap" /\ sockets.length <= Len(sockets.data)) =>
        /\ trace' = <<>>
        /\ sockets'.length = sockets.length
        /\ sockets'.capacity = sockets.capacity
        /\ \E idx1, idx2 \in 0..(sockets.length - 1) :
               Elems(sockets') = Exchanged(sockets, idx1, idx2)]_vars

\* The indices (from 1) at which the sequence q holds val.
Hits(q, val) == {i \in 1..Len(q) : q[i] = val}

\* C22: vec_remove(val), on a vector whose elements lie in its buffer,
\* removes one element, the one equal to val with the lowest index, and
\* leaves the others in their order and the capacity as it was; when no
\* element equals val the vector is unchanged.
C22_RemoveFirstMatch ==
    [][(last'.op = "vec_remove" /\ sockets.length <= Len(sockets.data)) =>
        LET val == last'.h[1]
            old == Elems(sockets)
        IN IF Hits(old, val) = {}
           THEN sockets' = sockets
           ELSE LET i == CHOOSE x \in Hits(old, val) : \A y \in Hits(old, val) : x <= y IN
                /\ sockets'.length = sockets.length - 1
                /\ Elems(sockets') = SubSeq(old, 1, i - 1) \o SubSeq(old, i + 1, Len(old))
                /\ sockets'.capacity = sockets.capacity]_vars

\* C22 witness: of three elements, the second and the third equal, the
\* second was removed, and the first and the third are left.
C22_Witness ==
    /\ last.op = "vec_remove" /\ last.h = <<2>>
    /\ sockets.length = 2 /\ Len(sockets.data) >= 2
    /\ sockets.data[1] = 1 /\ sockets.data[2] = 2
    /\ sockets.capacity = VEC_MIN_CAPACITY

\* The textual form of the address of candidate k of a handle's list.
AddressText(k) == "address " \o ToString(k)

\* C23: after a ConnectSocket that returned 1, the handle's descriptor is
\* connected to the candidate whose attempt succeeded, and a read of the
\* handle's ip field yields the textual form of that candidate's address.
C23_HandleHoldsWinnerAddress ==
    (LiveCall("ConnectSocket") /\ last.ret = 1) =>
        LET a == Attempts(trace)
            k == a[Len(a)].arg
        IN /\ a[Len(a)].ok
           /\ fdt[sock[last.h].fd].open /\ fdt[sock[last.h].fd].peer = k
           /\ \A ip \in IpValues(World, last.h) : ip = AddressText(k)

\* The reads and sends of a trace.
Transfers(t) == SelectSeq(t, LAMBDA e : e.call \in {"read", "send"})

\* The most recent call was ReadSocket or WriteSocket.
TransferCall == last.op \in {"ReadSocket", "WriteSocket"}

\* C24: a WriteSocket makes exactly one send and a ReadSocket exactly one
\* read, of the length asked for, and returns what that call returned: the
\* number of bytes moved, which may be less than the length, or the error,
\* with no second call in either case.
C24_OneCallOutcomeReturned ==
    TransferCall =>
        LET io == Transfers(trace) IN
        /\ Len(io) = 1
        /\ io[1].call = (IF last.op = "ReadSocket" THEN "read" ELSE "send")
        /\ last.ret = ToSizeT(io[1].ret)
        /\ io[1].ok => (last.ret = io[1].ret /\ last.ret <= io[1].arg)
        /\ ~io[1].ok => (io[1].ret = -1 /\ Called(trace, "fprintf", FALSE))

\* C24 witness: a WriteSocket of two bytes on a connected handle has sent
\* one and returned 1.
C24_Witness ==
    /\ LiveCall("WriteSocket") /\ sock[last.h].state = "Connected"
    /\ Len(Transfers(trace)) = 1
    /\ trace[1].call = "send" /\ trace[1].ok /\ trace[1].arg = 2 /\ trace[1].ret = 1
    /\ last.ret = 1

\* The values of the return type, size_t, each of which is a byte count.
ByteCounts == 0..SIZE_MAX

\* C25: what ReadSocket and WriteSocket return for an error is none of the
\* byte counts of the return type, what they return for a success is the
\* count, and a ReadSocket returns 0 only when the peer has closed.
C25_ErrorDistinctFromCounts ==
    (TransferCall /\ Len(Transfers(trace)) = 1) =>
        LET e == Transfers(trace)[1] IN
        /\ ~e.ok => last.ret \notin ByteCounts
        /\ e.ok => last.ret = e.ret
        /\ (last.op = "ReadSocket" /\ last.ret = 0) => e.eof

\* The positions in a trace of the reports of a failed attempt (the report
\* names its candidate) and of the report that no candidate accepted.
AttemptReports(t) == {i \in 1..Len(t) : t[i].call = "fprintf" /\ t[i].arg # 0}
FinalReports(t) == {i \in 1..Len(t) : t[i].call = "fprintf" /\ t[i].arg = 0}

\* C26: in a ConnectSocket call on a handle with N candidates, each failed
\* attempt is followed at once by one report naming its candidate and, if
\* it was not the last candidate, by the attempt on the next one; there is
\* no other report of an attempt; the call returns 0 exactly when it ends
\* with the report that no candidate accepted, which then follows N
\* reports of failed attempts, and returns 1 otherwise.
C26_FailuresAbsorbed ==
    LiveCall("ConnectSocket") =>
        LET n == sock[last.h].adr IN
        /\ \A i \in 1..Len(trace) : (trace[i].call = "connect" /\ ~trace[i].ok) =>
               /\ i + 1 <= Len(trace)
               /\ trace[i + 1].call = "fprintf" /\ trace[i + 1].arg = trace[i].arg
               /\ trace[i].arg < n =>
                      (/\ i + 2 <= Len(trace) /\ trace[i + 2].call = "connect"
                       /\ trace[i + 2].arg = trace[i].arg + 1)
        /\ \A i \in AttemptReports(trace) :
               i > 1 /\ trace[i - 1].call = "connect" /\ ~trace[i - 1].ok
        /\ last.ret \in {0, 1}
        /\ (last.ret = 0) <=> (FinalReports(trace) = {Len(trace)})
        /\ (last.ret = 1) <=> (FinalReports(trace) = {})
        /\ (last.ret = 0) => Cardinality(AttemptReports(trace)) = n

\* C26 witness: the first candidate refused and was reported, the second
\* accepted, and the call returned 1 with no other report.
C26_Witness ==
    /\ LiveCall("ConnectSocket") /\ last.ret = 1
    /\ Len(trace) = 3
    /\ trace[1].call = "connect" /\ ~trace[1].ok /\ trace[1].arg = 1
    /\ trace[2].call = "fprintf" /\ trace[2].arg = 1
    /\ trace[3].call = "connect" /\ trace[3].ok /\ trace[3].arg = 2

\* C27: when main returns, DestroySockets has run since InitializeSockets:
\* at the return the registry is empty, no socket_t that CreateSocket
\* returned is allocated and no descriptor is open.
C27_DestroyAllBeforeExit ==
    [][(main'.pc = "exited" /\ main.pc # "exited") =>
        /\ sockets.length = 0
        /\ \A h \in Handles : sock[h].mem # "live"
        /\ OpenCount(fdt) = 0]_vars

\* C28: a CreateSocket that returns NULL leaves the registry and the open
\* descriptors as they were and has released what it acquired: the
\* structure it allocated and, when the resolution succeeded, the
\* candidate list.
C28_FailedCreateHoldsNothing ==
    [][(last'.op = "CreateSocket" /\ last'.ret = NULL) =>
        /\ sockets' = sockets
        /\ fdt' = fdt
        /\ Count(trace', "free_sock", TRUE) = Count(trace', "malloc", TRUE)
        /\ Called(trace', "getaddrinfo", TRUE) => Called(trace', "freeaddrinfo", TRUE)]_vars

\* C29: a vec_insert or vec_swap call goes on to its shift or exchange
\* exactly when the reallocation of its own growth step did not fail,
\* whatever errno held when it was called.
C29_SkipOnlyOnOwnFailure ==
    [][last'.op \in {"vec_insert", "vec_swap"} =>
        ((last'.ret = 1) <=> ~Called(trace', "reallocarray", FALSE))]_vars

\* nmemb * size > SIZE_MAX, decided on the quotient of the exact product
\* by MUL_NO_OVERFLOW: floor(n * s / M) = (n div M) * s + ((n mod M) * s) div M.
ProductExceeds(nmemb, size) ==
    ((nmemb \div MUL_NO_OVERFLOW) * size
        + (((nmemb % MUL_NO_OVERFLOW) * size) \div MUL_NO_OVERFLOW)) >= MUL_NO_OVERFLOW

\* C30: reallocarray(optr, nmemb, size) returns NULL with errno ENOMEM and
\* without calling realloc exactly when nmemb * size is more than SIZE_MAX;
\* otherwise it calls realloc once, with the product nmemb * size itself.
C30_OverflowExactlyWhenProductExceeds ==
    last.op = "reallocarray" =>
        LET nmemb == last.h[1]
            size  == last.h[2]
        IN IF ProductExceeds(nmemb, size)
           THEN last.ret = NULL /\ errno = ENOMEM /\ trace = <<>>
           ELSE /\ Len(trace) = 1
                /\ trace[1].call = "realloc" /\ trace[1].arg = nmemb * size
                /\ (last.ret = NULL) <=> ~trace[1].ok

\* C30 witness: 257 members of 256 bytes, a product that is 256 modulo
\* SIZE_MAX + 1, were refused without a realloc.
C30_Witness ==
    /\ last.op = "reallocarray"
    /\ last.h = <<MUL_NO_OVERFLOW + 1, MUL_NO_OVERFLOW>>
    /\ last.ret = NULL /\ errno = ENOMEM /\ trace = <<>>
====
